---- MODULE Spec2Model ----
(***************************************************************************)
(* State-machine model of src/XrdApps/XrdClJCachePlugin/app/CacheCleaner.py *)
(* (the XrdClJCache directory cleaner).                                    *)
(*                                                                         *)
(* The cleaner is one sequential process: main() loops forever over        *)
(* clean_directory() and time.sleep().  Every filesystem call of the       *)
(* cleaner (os.walk listing, os.path.isfile, os.path.getsize,              *)
(* os.path.getatime, os.remove) is one atomic step, so that the steps of   *)
(* other processes working in the same directory (EnvRemove, EnvWrite,     *)
(* EnvReplace) can fall between any two of them.  An exception that no     *)
(* handler of the program catches ends the process (pc = "crashed").       *)
(***************************************************************************)
EXTENDS Integers, Sequences, FiniteSets, TLC

\* ------------------------------------------------------------------ bounds
MaxSize   == 2    \* file sizes are 1..MaxSize bytes
MaxTime   == 2    \* access times are 1..MaxTime
MaxWm     == 4    \* the watermarks given on the command line are 0..MaxWm
MaxEnv    == 1    \* steps other processes take in the directory per run
MaxCycles == 2    \* iterations of main's while True that are explored

\* The paths under the monitored directory, as the strings os.path.join
\* returns, each a sequence of character codes: "a", "aa", "b".
Paths == { <<1>>, <<1, 1>>, <<2>> }

\* fs[p] of a path with no file behind it.
NoFile == [size |-> -1, atime |-> -1]
\* No path: the value of fp outside the body of a scan loop.
NoPath == << >>

FileStates == [size : 1..MaxSize, atime : 1..MaxTime]

VARIABLES
  high_watermark,  \* args.highwatermark
  low_watermark,   \* args.lowwatermark
  fs,              \* the directory: path -> [size, atime] or NoFile
  pc,              \* the statement the cleaner is at
  cycle,           \* number of the current iteration of main's loop
  pending,         \* file names os.walk listed that the for loop has not visited
  fp,              \* the path the scan loop body is at (between isfile and stat)
  total_size,      \* get_directory_size's accumulator
  file_list,       \* get_files_by_access_time's list, in the order appended
  files,           \* clean_directory's sorted list of (access_time, file_path)
  idx,             \* position of the for loop of clean_directory in files
  current_size,    \* clean_directory's running size
  file_size,       \* clean_directory's file_size of the file being removed
  measured,        \* history: what get_directory_size returned this cycle, -1 before
  deleted,         \* history: paths os.remove removed in this cycle
  attempts,        \* history: path -> number of os.remove calls in this cycle
  disturbed,       \* history: another process changed the directory in this cycle
  lastEnd,         \* history: how the latest finished cycle left the directory
  prevEnd,         \* history: lastEnd of the cycle before the current one
  envLeft,         \* steps of other processes still to be explored
  crashSite,       \* the function an uncaught exception was raised in, or "none"
  link,            \* symbolic links: path -> the path it points to, or NoPath
  interval,        \* args.interval
  dir_exists,      \* args.directory names a directory that is there
  counted,         \* history: path -> the size get_directory_size added for it
  listed,          \* history: path -> the size it had when it was put in file_list
  fresh            \* history: path -> is the file there newer than the inventory

vars == << high_watermark, low_watermark, fs, pc, cycle, pending, fp, total_size,
           file_list, files, idx, current_size, file_size, measured, deleted,
           attempts, disturbed, lastEnd, prevEnd, envLeft, crashSite, link,
           interval, dir_exists, counted, listed, fresh >>

\* ------------------------------------------------------------ pure helpers

\* The path whose file os.path.isfile, getsize and getatime look at: they
\* follow a symbolic link.
Resolve(p) == IF link[p] # NoPath THEN link[p] ELSE p

\* os.path.isfile(p): a regular file, or a symbolic link that leads to one.
IsFile(f, p) == f[Resolve(p)] # NoFile

\* os.path.getsize(p) of a path that leads to a file.
GetSize(f, p) == f[Resolve(p)].size

\* os.path.getatime(p) of a path that leads to a file.
GetATime(f, p) == f[Resolve(p)].atime

\* The paths os.path.isfile accepts.
Existing(f) == { p \in Paths : IsFile(f, p) }

\* The filenames os.walk lists: regular files and symbolic links, dangling
\* ones too; none when the directory is not there (os.walk ignores the error).
Listed(f) ==
  IF dir_exists THEN { p \in Paths : f[p] # NoFile \/ link[p] # NoPath } ELSE {}

RECURSIVE SumSizes(_, _)
SumSizes(f, S) ==
  IF S = {} THEN 0
  ELSE LET p == CHOOSE q \in S : TRUE
       IN  GetSize(f, p) + SumSizes(f, S \ {p})

\* What get_directory_size returns when nothing else touches the directory.
DirSize(f) == SumSizes(f, Existing(f))

\* Python's < on str: lexicographic by code point, a proper prefix is smaller.
RECURSIVE LexLess(_, _)
LexLess(a, b) ==
  IF a = << >> THEN b # << >>
  ELSE IF b = << >> THEN FALSE
  ELSE IF Head(a) < Head(b) THEN TRUE
  ELSE IF Head(a) > Head(b) THEN FALSE
  ELSE LexLess(Tail(a), Tail(b))

\* A sort keyed on the access time alone.
TupleLess_atime_only(x, y) == x[1] < y[1]

\* Python's < on the tuples (access_time, fp) that list.sort() compares.
TupleLess(x, y) == x[1] < y[1] \/ (x[1] = y[1] /\ LexLess(x[2], y[2]))

\* Stable insertion of x in front of the sorted s (x came before s in the list).
RECURSIVE Insert(_, _)
Insert(x, s) ==
  IF s = << >> THEN << x >>
  ELSE IF TupleLess(Head(s), x) THEN << Head(s) >> \o Insert(x, Tail(s))
  ELSE << x >> \o s

RECURSIVE SortedList(_)
SortedList(l) ==
  IF l = << >> THEN << >> ELSE Insert(Head(l), SortedList(Tail(l)))

\* A cleaner that forgot file_list.sort().
SortFiles_unsorted(l) == l

\* file_list.sort()
SortFiles(l) == SortedList(l)

\* The high-watermark test taken strictly.
WithinLimit_strict(size, high) == size < high

\* clean_directory: current_size <= high_watermark
WithinLimit(size, high) == size <= high

\* A cleaner that stops only when the directory is accounted empty.
StopEvicting_zero(size, low) == size <= 0

\* The low-watermark test taken strictly.
StopEvicting_strict(size, low) == size < low

\* clean_directory: current_size <= low_watermark (the break of the for loop)
StopEvicting(size, low) == size <= low

\* The subtraction done whether or not os.remove raised.
SizeAfterRemove_always(size, fsize, removed) == size - fsize

\* current_size -= file_size, which the exception of os.remove skips.
SizeAfterRemove(size, fsize, removed) == IF removed THEN size - fsize ELSE size

\* An except clause that leaves the for loop.
NextIndex_break(i, removed, n) == IF removed THEN i + 1 ELSE n + 1

\* The for loop of clean_directory goes on to the next tuple, removed or not.
NextIndex(i, removed, n) == i + 1

\* How a finished cycle left the directory, for the cycle after it.
EndOf(f, low, del) ==
  IF DirSize(f) <= low
  THEN (IF del = {} THEN "le_low_idle" ELSE "le_low_evicted")
  ELSE "gt_low"

NoAttempts == [p \in Paths |-> 0]

\* No size recorded for any path (counted, listed).
NoSizes == [p \in Paths |-> 0]

\* No file is newer than the inventory.
NoFresh == [p \in Paths |-> "no"]

\* No symbolic link in the directory.
NoLinks == [p \in Paths |-> NoPath]

\* clean_directory: the file_path of the tuple the for loop is at.
RemoveTarget(fl, i) == fl[i][2]

\* ------------------------------------------------------------------- Init

Init ==
  /\ high_watermark \in 0..MaxWm
  /\ low_watermark \in 0..MaxWm
  /\ fs \in [Paths -> FileStates \cup {NoFile}]
  /\ pc = "main"
  /\ cycle = 0
  /\ pending = {}
  /\ fp = NoPath
  /\ total_size = 0
  /\ file_list = << >>
  /\ files = << >>
  /\ idx = 0
  /\ current_size = 0
  /\ file_size = 0
  /\ measured = -1
  /\ deleted = {}
  /\ attempts = NoAttempts
  /\ disturbed = FALSE
  /\ lastEnd = "none"
  /\ prevEnd = "none"
  /\ envLeft = MaxEnv
  /\ crashSite = "none"
  /\ link = NoLinks
  /\ interval = 1
  /\ dir_exists = TRUE
  /\ counted = NoSizes
  /\ listed = NoSizes
  /\ fresh = NoFresh

\* ---------------------------------------------------------------- actions

\* main: parse_args and the first entry of while True.
Main ==
  /\ pc = "main"
  /\ pc' = "size_walk"
  /\ cycle' = 1
  /\ UNCHANGED << high_watermark, low_watermark, fs, pending, fp, total_size,
                  file_list, files, idx, current_size, file_size, measured,
                  deleted, attempts, disturbed, lastEnd, prevEnd, envLeft,
                  crashSite, link, interval, dir_exists, counted, listed,
                  fresh >>

\* get_directory_size: total_size = 0 and os.walk lists the directory.
SizeWalk ==
  /\ pc = "size_walk"
  /\ total_size' = 0
  /\ pending' = Listed(fs)
  /\ fp' = NoPath
  /\ pc' = "size_isfile"
  /\ UNCHANGED << high_watermark, low_watermark, fs, cycle, file_list, files,
                  idx, current_size, file_size, measured, deleted, attempts,
                  disturbed, lastEnd, prevEnd, envLeft, crashSite, link,
                  interval, dir_exists, counted, listed, fresh >>

\* get_directory_size: the next f of filenames (in the order the listing has,
\* which is any order) and os.path.isfile(fp).
SizeIsFile ==
  /\ pc = "size_isfile"
  /\ \E p \in pending :
       /\ pending' = pending \ {p}
       /\ IF IsFile(fs, p)
          THEN fp' = p /\ pc' = "size_getsize"
          ELSE fp' = NoPath /\ pc' = "size_isfile"
  /\ UNCHANGED << high_watermark, low_watermark, fs, cycle, total_size,
                  file_list, files, idx, current_size, file_size, measured,
                  deleted, attempts, disturbed, lastEnd, prevEnd, envLeft,
                  crashSite, link, interval, dir_exists, counted, listed,
                  fresh >>

\* get_directory_size: total_size += os.path.getsize(fp); getsize raises
\* FileNotFoundError for a missing file, and nothing catches it.
SizeGetSize ==
  /\ pc = "size_getsize"
  /\ IF IsFile(fs, fp)
     THEN /\ total_size' = total_size + GetSize(fs, fp)
          /\ counted' = [counted EXCEPT ![fp] = GetSize(fs, fp)]
          /\ pc' = "size_isfile"
          /\ crashSite' = crashSite
     ELSE /\ total_size' = total_size
          /\ counted' = counted
          /\ pc' = "crashed"
          /\ crashSite' = "get_directory_size"
  /\ fp' = NoPath
  /\ UNCHANGED << high_watermark, low_watermark, fs, cycle, pending,
                  file_list, files, idx, current_size, file_size, measured,
                  deleted, attempts, disturbed, lastEnd, prevEnd, envLeft,
                  link, interval, dir_exists, listed, fresh >>

\* get_directory_size returns; clean_directory compares with high_watermark
\* and returns ("within the limit") or goes on to list the files.
SizeReturn ==
  /\ pc = "size_isfile"
  /\ pending = {}
  /\ current_size' = total_size
  /\ measured' = total_size
  /\ total_size' = 0
  /\ IF WithinLimit(total_size, high_watermark)
     THEN /\ pc' = "sleep"
          /\ lastEnd' = EndOf(fs, low_watermark, deleted)
     ELSE /\ pc' = "list_walk"
          /\ lastEnd' = lastEnd
  /\ UNCHANGED << high_watermark, low_watermark, fs, cycle, pending, fp,
                  file_list, files, idx, file_size, deleted, attempts,
                  disturbed, prevEnd, envLeft, crashSite, link, interval,
                  dir_exists, counted, listed, fresh >>

\* get_files_by_access_time: file_list = [] and os.walk lists the directory.
ListWalk ==
  /\ pc = "list_walk"
  /\ file_list' = << >>
  /\ pending' = Listed(fs)
  /\ fp' = NoPath
  /\ pc' = "list_isfile"
  /\ UNCHANGED << high_watermark, low_watermark, fs, cycle, total_size, files,
                  idx, current_size, file_size, measured, deleted, attempts,
                  disturbed, lastEnd, prevEnd, envLeft, crashSite, link,
                  interval, dir_exists, counted, listed, fresh >>

\* get_files_by_access_time: the next f of filenames and os.path.isfile(fp).
ListIsFile ==
  /\ pc = "list_isfile"
  /\ \E p \in pending :
       /\ pending' = pending \ {p}
       /\ IF IsFile(fs, p)
          THEN fp' = p /\ pc' = "list_getatime"
          ELSE fp' = NoPath /\ pc' = "list_isfile"
  /\ UNCHANGED << high_watermark, low_watermark, fs, cycle, total_size,
                  file_list, files, idx, current_size, file_size, measured,
                  deleted, attempts, disturbed, lastEnd, prevEnd, envLeft,
                  crashSite, link, interval, dir_exists, counted, listed,
                  fresh >>

\* get_files_by_access_time: os.path.getatime(fp), uncaught when the file is
\* gone, and file_list.append((access_time, fp)).
ListGetATime ==
  /\ pc = "list_getatime"
  /\ IF IsFile(fs, fp)
     THEN /\ file_list' = Append(file_list, << GetATime(fs, fp), fp >>)
          /\ listed' = [listed EXCEPT ![fp] = GetSize(fs, fp)]
          /\ pc' = "list_isfile"
          /\ crashSite' = crashSite
     ELSE /\ file_list' = << >>
          /\ listed' = listed
          /\ pc' = "crashed"
          /\ crashSite' = "get_files_by_access_time"
  /\ fp' = NoPath
  /\ UNCHANGED << high_watermark, low_watermark, fs, cycle, pending,
                  total_size, files, idx, current_size, file_size, measured,
                  deleted, attempts, disturbed, lastEnd, prevEnd, envLeft,
                  link, interval, dir_exists, counted, fresh >>

\* get_files_by_access_time: file_list.sort() and return; clean_directory
\* starts its for loop.
ListReturn ==
  /\ pc = "list_isfile"
  /\ pending = {}
  /\ files' = SortFiles(file_list)
  /\ file_list' = << >>
  /\ idx' = 1
  /\ pc' = "loop"
  /\ UNCHANGED << high_watermark, low_watermark, fs, cycle, pending, fp,
                  total_size, current_size, file_size, measured, deleted,
                  attempts, disturbed, lastEnd, prevEnd, envLeft, crashSite,
                  link, interval, dir_exists, counted, listed, fresh >>

\* clean_directory: the head of the for loop and the low-watermark break.
LoopCheck ==
  /\ pc = "loop"
  /\ IF idx > Len(files) \/ StopEvicting(current_size, low_watermark)
     THEN /\ pc' = "sleep"
          /\ lastEnd' = EndOf(fs, low_watermark, deleted)
     ELSE /\ pc' = "evict_getsize"
          /\ lastEnd' = lastEnd
  /\ UNCHANGED << high_watermark, low_watermark, fs, cycle, pending, fp,
                  total_size, file_list, files, idx, current_size, file_size,
                  measured, deleted, attempts, disturbed, prevEnd, envLeft,
                  crashSite, link, interval, dir_exists, counted, listed,
                  fresh >>

\* clean_directory: file_size = os.path.getsize(file_path), outside the try.
EvictGetSize ==
  /\ pc = "evict_getsize"
  /\ LET p == RemoveTarget(files, idx) IN
       IF IsFile(fs, p)
       THEN /\ file_size' = GetSize(fs, p)
            /\ pc' = "evict_remove"
            /\ crashSite' = crashSite
       ELSE /\ file_size' = 0
            /\ pc' = "crashed"
            /\ crashSite' = "clean_directory"
  /\ UNCHANGED << high_watermark, low_watermark, fs, cycle, pending, fp,
                  total_size, file_list, files, idx, current_size, measured,
                  deleted, attempts, disturbed, lastEnd, prevEnd, envLeft,
                  link, interval, dir_exists, counted, listed, fresh >>

\* clean_directory: try os.remove(file_path); current_size -= file_size;
\* except Exception: print.  os.remove raises for a missing file, and may
\* raise for a file that is there (permission, I/O error); of a symbolic link
\* it removes the link, not the file the link leads to.
EvictRemove ==
  /\ pc = "evict_remove"
  /\ LET p == RemoveTarget(files, idx) IN
       \E removed \in { r \in BOOLEAN : r => p \in Listed(fs) } :
         /\ fs' = IF removed /\ link[p] = NoPath
                  THEN [fs EXCEPT ![p] = NoFile] ELSE fs
         /\ link' = IF removed THEN [link EXCEPT ![p] = NoPath] ELSE link
         /\ fresh' = IF removed /\ fresh[p] = "yes"
                     THEN [fresh EXCEPT ![p] = "deleted"] ELSE fresh
         /\ current_size' = SizeAfterRemove(current_size, file_size, removed)
         /\ deleted' = IF removed THEN deleted \cup {p} ELSE deleted
         /\ attempts' = [attempts EXCEPT ![p] = @ + 1]
         /\ idx' = NextIndex(idx, removed, Len(files))
  /\ file_size' = 0
  /\ pc' = "loop"
  /\ UNCHANGED << high_watermark, low_watermark, cycle, pending, fp,
                  total_size, file_list, files, measured, disturbed, lastEnd,
                  prevEnd, envLeft, crashSite, interval, dir_exists, counted,
                  listed >>

\* main: time.sleep(interval) and while True runs clean_directory again;
\* time.sleep raises ValueError for a negative interval, which nothing catches.
Sleep ==
  /\ pc = "sleep"
  /\ IF interval < 0
     THEN /\ pc' = "crashed"
          /\ crashSite' = "main"
          /\ UNCHANGED << cycle, prevEnd, files, idx, current_size, measured,
                          deleted, attempts, disturbed, counted, listed, fresh >>
     ELSE /\ cycle < MaxCycles
          /\ cycle' = cycle + 1
          /\ pc' = "size_walk"
          /\ crashSite' = crashSite
          /\ prevEnd' = lastEnd
          /\ files' = << >>
          /\ idx' = 0
          /\ current_size' = 0
          /\ measured' = -1
          /\ deleted' = {}
          /\ attempts' = NoAttempts
          /\ disturbed' = FALSE
          /\ counted' = NoSizes
          /\ listed' = NoSizes
          /\ fresh' = NoFresh
  /\ UNCHANGED << high_watermark, low_watermark, fs, pending, fp, total_size,
                  file_list, file_size, lastEnd, envLeft, link, interval,
                  dir_exists >>

\* What a step of another process does to the model's history variables.
EnvEffect ==
  /\ envLeft > 0
  /\ pc \notin {"main", "crashed"}
  /\ envLeft' = envLeft - 1
  /\ disturbed' = TRUE
  /\ lastEnd' = IF lastEnd = "none" THEN "none" ELSE "disturbed"
  /\ prevEnd' = IF prevEnd = "none" THEN "none" ELSE "disturbed"
  /\ UNCHANGED << high_watermark, low_watermark, pc, cycle, pending, fp,
                  total_size, file_list, files, idx, current_size, file_size,
                  measured, deleted, attempts, crashSite, link, interval,
                  dir_exists, counted, listed >>

\* get_files_by_access_time has returned and the for loop of clean_directory
\* is running on its list.
InventoryTaken == pc \in {"loop", "evict_getsize", "evict_remove"}

\* fresh after another process put a new file at p.
FreshAfterCreate(p) ==
  IF InventoryTaken /\ fresh[p] = "no" THEN [fresh EXCEPT ![p] = "yes"] ELSE fresh

\* Another process removes a file of the directory.
EnvRemove ==
  /\ EnvEffect
  /\ \E p \in { q \in Paths : fs[q] # NoFile } :
       /\ fs' = [fs EXCEPT ![p] = NoFile]
       /\ fresh' = IF fresh[p] = "yes" THEN [fresh EXCEPT ![p] = "no"] ELSE fresh

\* Another process creates a file, or rewrites one in place (new size, new
\* access time).
EnvWrite ==
  /\ EnvEffect
  /\ \E p \in { q \in Paths : link[q] = NoPath } : \E st \in FileStates :
       /\ fs[p] # st
       /\ fs' = [fs EXCEPT ![p] = st]
       /\ fresh' = IF fs[p] = NoFile THEN FreshAfterCreate(p) ELSE fresh

\* Another process replaces a file by a new one under the same path (writes a
\* temporary file and renames it over the old one).
EnvReplace ==
  /\ EnvEffect
  /\ \E p \in { q \in Paths : fs[q] # NoFile } : \E st \in FileStates :
       /\ fs' = [fs EXCEPT ![p] = st]
       /\ fresh' = FreshAfterCreate(p)

\* The cleaner alone in its directory.
Next ==
  \/ Main
  \/ SizeWalk
  \/ SizeIsFile
  \/ SizeGetSize
  \/ SizeReturn
  \/ ListWalk
  \/ ListIsFile
  \/ ListGetATime
  \/ ListReturn
  \/ LoopCheck
  \/ EvictGetSize
  \/ EvictRemove
  \/ Sleep

Spec == Init /\ [][Next]_vars

\* The cleaner in a directory that other processes (the cache's producers and
\* consumers) read and write at the same time.
NextShared ==
  \/ Main
  \/ SizeWalk
  \/ SizeIsFile
  \/ SizeGetSize
  \/ SizeReturn
  \/ ListWalk
  \/ ListIsFile
  \/ ListGetATime
  \/ ListReturn
  \/ LoopCheck
  \/ EvictGetSize
  \/ EvictRemove
  \/ Sleep
  \/ EnvRemove
  \/ EnvWrite
  \/ EnvReplace

SpecShared == Init /\ [][NextShared]_vars

\* The cleaner before main has run: every local and every history variable
\* as Init has it.
InitLocals ==
  /\ pc = "main"
  /\ cycle = 0
  /\ pending = {}
  /\ fp = NoPath
  /\ total_size = 0
  /\ file_list = << >>
  /\ files = << >>
  /\ idx = 0
  /\ current_size = 0
  /\ file_size = 0
  /\ measured = -1
  /\ deleted = {}
  /\ attempts = NoAttempts
  /\ disturbed = FALSE
  /\ lastEnd = "none"
  /\ prevEnd = "none"
  /\ envLeft = MaxEnv
  /\ crashSite = "none"
  /\ counted = NoSizes
  /\ listed = NoSizes
  /\ fresh = NoFresh

\* A directory that holds at least one symbolic link: a link sits at a path
\* of its own and points to another path of the directory, where a regular
\* file is or is not (a dangling link).
InitLinks ==
  /\ high_watermark \in 0..MaxWm
  /\ low_watermark \in 0..MaxWm
  /\ interval = 1
  /\ dir_exists = TRUE
  /\ fs \in [Paths -> FileStates \cup {NoFile}]
  /\ link \in [Paths -> Paths \cup {NoPath}]
  /\ \E p \in Paths : link[p] # NoPath
  /\ \A p \in Paths :
       link[p] # NoPath =>
         (fs[p] = NoFile /\ link[p] # p /\ link[link[p]] = NoPath)
  /\ InitLocals

\* The cleaner alone in a directory with symbolic links.
SpecLinks == InitLinks /\ [][Next]_vars

\* main: what parse_args accepts. type=int takes negative integers, the
\* interval may be negative or zero, and the directory argument is any
\* string, the name of an existing directory or not; os.walk of a missing
\* directory lists nothing.
InitArgs ==
  /\ high_watermark \in (-1)..MaxWm
  /\ low_watermark \in (-1)..MaxWm
  /\ interval \in (-1)..1
  /\ dir_exists \in BOOLEAN
  /\ fs \in [Paths -> FileStates \cup {NoFile}]
  /\ (~dir_exists => \A p \in Paths : fs[p] = NoFile)
  /\ link = NoLinks
  /\ InitLocals

\* The cleaner alone, started with any arguments parse_args accepts.
SpecArgs == InitArgs /\ [][Next]_vars

\* The configurations the WatermarkConfig of the specification excludes,
\* the watermark order aside.
InvalidConfig ==
  \/ ~dir_exists
  \/ high_watermark < 0
  \/ low_watermark < 0
  \/ interval <= 0

\* ----------------------------------------------------------------- claims

\* The positions of clean_directory after get_files_by_access_time returned.
InEviction == pc \in {"loop", "evict_getsize", "evict_remove", "sleep"} /\ measured > high_watermark

\* The paths of the snapshot, in eviction order.
SnapshotPath(i) == files[i][2]
SnapshotTime(i) == files[i][1]

\* C1: a cycle whose measured total size is <= highWatermark removes no file,
\* attempts no removal and leaves the total size as measured, whatever
\* lowWatermark is.
C1_NoOpBelowThreshold ==
  (measured >= 0 /\ measured <= high_watermark) =>
    /\ deleted = {}
    /\ attempts = NoAttempts
    /\ (~disturbed => DirSize(fs) = measured)

\* C1 witness: a cycle over a non-empty directory ended "within the limit"
\* although the directory is larger than the low watermark.
C1_Witness ==
  /\ pc = "sleep"
  /\ measured >= 1
  /\ measured <= high_watermark
  /\ measured > low_watermark

\* C2 as claimed: after a cycle that measured more than highWatermark the
\* directory is <= lowWatermark or holds no file at all.
C2_ThresholdCrossing_Original ==
  (pc = "sleep" /\ measured > high_watermark /\ ~disturbed) =>
    (DirSize(fs) <= low_watermark \/ Existing(fs) = {})

\* C2 amended: after a cycle that measured more than highWatermark, in a
\* directory nobody else touched, the directory is <= lowWatermark or every
\* file still in it is one whose removal was attempted once and failed.
C2_ThresholdCrossing ==
  (pc = "sleep" /\ measured > high_watermark /\ ~disturbed) =>
    \/ DirSize(fs) <= low_watermark
    \/ \A p \in Existing(fs) : attempts[p] = 1 /\ p \notin deleted

\* C2 witness: a cycle removed a file, another removal failed, and the
\* directory stayed above the low watermark.
C2_Witness ==
  /\ pc = "sleep"
  /\ measured > high_watermark
  /\ ~disturbed
  /\ deleted # {}
  /\ Existing(fs) # {}
  /\ DirSize(fs) > low_watermark

\* C3 as claimed: no file is deleted while a file of the snapshot with a
\* strictly older access time remains undeleted.
C3_OrderingLaw_Original ==
  InEviction =>
    \A i \in 1..Len(files) : \A j \in 1..Len(files) :
      (SnapshotPath(j) \in deleted /\ SnapshotTime(i) < SnapshotTime(j))
        => SnapshotPath(i) \in deleted

\* C3 amended: no file is deleted before the removal of every file of the
\* snapshot with a strictly older access time has been attempted (an older
\* file whose removal failed stays while younger files are deleted).
C3_OrderingLaw ==
  InEviction =>
    \A i \in 1..Len(files) : \A j \in 1..Len(files) :
      (SnapshotPath(j) \in deleted /\ SnapshotTime(i) < SnapshotTime(j))
        => attempts[SnapshotPath(i)] = 1

\* C3 witness: a younger file is deleted after the removal of an older one
\* failed.
C3_Witness ==
  /\ InEviction
  /\ \E i \in 1..Len(files) : \E j \in 1..Len(files) :
       /\ SnapshotPath(j) \in deleted
       /\ SnapshotTime(i) < SnapshotTime(j)
       /\ SnapshotPath(i) \notin deleted
       /\ attempts[SnapshotPath(i)] = 1

\* C4 as claimed: a file of the snapshot that cannot be removed, also one
\* that is already gone, never aborts the eviction loop or the process.
C4_DeleteFailureNotFatal == crashSite # "clean_directory"

\* C5 as claimed: once main's loop is entered the cleaner never reaches a
\* terminal state, whatever other processes do in the directory.
C5_NeverTerminal == cycle >= 1 => pc # "crashed"

\* C6 as claimed: with lowWatermark > highWatermark the loop of main is never
\* entered (no scan, no deletion).
C6_ConfigRejected ==
  low_watermark > high_watermark => (pc = "main" /\ cycle = 0)

\* C7: a cycle that follows, in an untouched directory, a cycle that ended
\* with the directory <= lowWatermark removes nothing and attempts nothing.
C7_Idempotence ==
  (cycle >= 2 /\ prevEnd \in {"le_low_idle", "le_low_evicted"}) =>
    (deleted = {} /\ attempts = NoAttempts)

\* C7 witness: the second cycle finished after a first cycle that evicted
\* down to the low watermark.
C7_Witness ==
  /\ cycle = 2
  /\ prevEnd = "le_low_evicted"
  /\ pc = "sleep"

\* C8 as claimed: a file that disappears between the directory listing and
\* the read of its size or access time is skipped and the scan completes.
C8_ScanTolerant ==
  crashSite \notin {"get_directory_size", "get_files_by_access_time"}

\* C9: no removal is attempted twice in a cycle, and when the eviction loop
\* has completed either currentSize <= lowWatermark or the removal of every
\* file of the snapshot has been attempted exactly once.
C9_EvictorCompletion ==
  /\ \A p \in Paths : attempts[p] <= 1
  /\ (pc = "sleep" /\ measured > high_watermark) =>
       \/ current_size <= low_watermark
       \/ \A i \in 1..Len(files) : attempts[SnapshotPath(i)] = 1

\* C9 witness: the loop ran through the whole snapshot, a removal failed and
\* currentSize stayed above the low watermark.
C9_Witness ==
  /\ pc = "sleep"
  /\ measured > high_watermark
  /\ current_size > low_watermark
  /\ Len(files) >= 2
  /\ deleted # {}

\* C10: the inventory is sorted ascending by access time, entries of equal
\* access time by path string, and holds exactly the files of the directory,
\* whatever order the walk listed them in.
C10_DeterministicOrder ==
  InEviction =>
    /\ \A i \in 1..Len(files) : \A j \in 1..Len(files) :
         i < j =>
           \/ SnapshotTime(i) < SnapshotTime(j)
           \/ SnapshotTime(i) = SnapshotTime(j)
                /\ LexLess(SnapshotPath(i), SnapshotPath(j))
    /\ (pc = "loop" /\ idx = 1 /\ ~disturbed) =>
         /\ { files[i] : i \in 1..Len(files) }
              = { << fs[p].atime, p >> : p \in Existing(fs) }
         /\ Len(files) = Cardinality(Existing(fs))

\* C10 witness: an inventory of three files, the first two with the same
\* access time.
C10_Witness ==
  /\ pc = "loop"
  /\ Len(files) = 3
  /\ SnapshotTime(1) = SnapshotTime(2)
  /\ SnapshotTime(2) < SnapshotTime(3)

\* C11 as claimed: a symbolic link is never counted in the total size, never
\* put in the inventory and so never deleted.
C11_OnlyRegularFiles ==
  \A p \in Paths :
    link[p] # NoPath =>
      /\ counted[p] = 0
      /\ listed[p] = 0
      /\ \A i \in 1..Len(files) : SnapshotPath(i) # p

\* C12 as claimed: with a missing directory, a negative watermark or a
\* non-positive interval the process never enters the loop: no scan, no
\* deletion and no sleep is performed.
C12_InvalidConfigFatal ==
  InvalidConfig => (pc \in {"main", "crashed"} /\ cycle = 0 /\ deleted = {})

\* The paths of the first k entries of the snapshot.
SnapshotPrefix(k) == { SnapshotPath(i) : i \in 1..k }

\* The total of the scan less the sizes the scan saw for the first k entries
\* of the snapshot.
RECURSIVE Remaining(_)
Remaining(k) ==
  IF k = 0 THEN measured ELSE Remaining(k - 1) - listed[SnapshotPath(k)]

\* No os.remove of this cycle has failed.
EveryDeletionSucceeded == \A p \in Paths : attempts[p] > 0 => p \in deleted

\* C13: minimal eviction.  In a cycle whose scan measured more than
\* high_watermark and in which no os.remove failed, the files deleted are
\* a prefix of the oldest-first snapshot, every one of them was deleted
\* while the remaining size was still above low_watermark, current_size is
\* the remaining size, and when the cycle is over the prefix is the
\* shortest one that brings the remaining size to low_watermark or below.
C13_MinimalEviction ==
  (InEviction /\ EveryDeletionSucceeded) =>
    \E k \in 0..Len(files) :
      /\ deleted = SnapshotPrefix(k)
      /\ Cardinality(deleted) = k
      /\ current_size = Remaining(k)
      /\ \A j \in 0..(k - 1) : Remaining(j) > low_watermark
      /\ pc = "sleep" => Remaining(k) <= low_watermark

\* C13 witness: the cycle of the example is over: three files in the
\* snapshot, the two oldest deleted, the third kept when current_size had
\* come down to low_watermark.
C13_Witness ==
  /\ pc = "sleep"
  /\ measured > high_watermark
  /\ EveryDeletionSucceeded
  /\ Len(files) = 3
  /\ deleted = SnapshotPrefix(2)
  /\ fs[SnapshotPath(3)] # NoFile
  /\ current_size = fs[SnapshotPath(3)].size
  /\ current_size <= low_watermark

\* The sum of g over the paths of S.
RECURSIVE SumOf(_, _)
SumOf(g, S) ==
  IF S = {} THEN 0
  ELSE LET p == CHOOSE q \in S : TRUE
       IN  g[p] + SumOf(g, S \ {p})

\* C14 as claimed: throughout the eviction loop current_size is the total
\* of the scan less the sizes the inventory scan saw for the files deleted
\* so far in this cycle (a failed os.remove changes nothing, a successful
\* one takes off the recorded size of the file).
C14_RunningSizeAccounting ==
  InEviction => current_size = measured - SumOf(listed, deleted)

\* The positions of the two scans of a cycle.
Scanning ==
  pc \in {"size_walk", "size_isfile", "size_getsize",
          "list_walk", "list_isfile", "list_getatime"}

\* One step of the cleaner, as the sequencing of main's loop allows it.
C15_Step ==
  \* a scan starts from main or from the sleep only, and starts a new cycle
  /\ (pc' = "size_walk" /\ pc # "size_walk") =>
        (pc \in {"main", "sleep"} /\ cycle' = cycle + 1)
  /\ (cycle' # cycle) => (pc \in {"main", "sleep"} /\ pc' = "size_walk")
  \* the sleep is entered when the decision was "within the limit" or the
  \* for loop is through: no tuple left or the low watermark reached
  /\ (pc' = "sleep" /\ pc # "sleep") =>
        \/ pc = "size_isfile" /\ pending = {} /\ measured' <= high_watermark
        \/ pc = "loop" /\ (idx > Len(files) \/ current_size <= low_watermark)
  \* the sleep does nothing but lead to the next scan
  /\ (pc = "sleep") => (pc' = "size_walk" /\ fs' = fs /\ link' = link)
  \* a file goes, or an os.remove is tried, only at line 65 of a cycle
  \* whose own scan measured more than high_watermark
  /\ (fs' # fs \/ link' # link \/ (deleted' # deleted /\ deleted' # {})
         \/ (attempts' # attempts /\ attempts' # NoAttempts)) =>
        /\ pc = "evict_remove"
        /\ measured > high_watermark
        /\ measured' = measured
        /\ cycle' = cycle
  \* while a cycle scans it has deleted nothing yet
  /\ Scanning' => (deleted' = {} /\ attempts' = NoAttempts)

\* C15: cycle sequencing.  Cycles do not overlap: scan, decision and every
\* delete attempt of a cycle are over before its sleep, one sleep lies
\* between the end of a cycle and the scan of the next (after a "within
\* the limit" cycle and after an evicting one), and files are deleted only
\* in a cycle whose own scan measured more than high_watermark.
C15_CycleSequencing == [][C15_Step]_vars

\* C15 witness: the second cycle, begun after the sleep that followed the
\* first, has measured more than high_watermark, deleted and reached its
\* own sleep.
C15_Witness ==
  /\ cycle = 2
  /\ pc = "sleep"
  /\ prevEnd # "none"
  /\ measured > high_watermark
  /\ deleted # {}

\* C16 as claimed: the total that is compared with high_watermark and
\* becomes the first current_size, and the inventory that is evicted from,
\* describe the same directory contents: the total is the sum of the sizes
\* of the files of the inventory, also when another process adds or removes
\* files while the cycle scans.
C16_SnapshotConsistent ==
  InEviction => measured = SumOf(listed, SnapshotPrefix(Len(files)))

\* C17 as claimed: what a cycle removes are files of its inventory; a file
\* another process created after the inventory was taken is not deleted in
\* that cycle.
C17_DeletionFrame ==
  /\ InEviction => deleted \subseteq SnapshotPrefix(Len(files))
  /\ \A p \in Paths : fresh[p] # "deleted"

\* C18 as claimed: current_size is never negative, whatever other
\* processes do to the files between the scan and the delete attempts.
C18_CurrentSizeNonNegative == current_size >= 0


====
